---- MODULE Spec2Model ----
EXTENDS Integers, Sequences, FiniteSets, TLC

\* Strings are modelled as sequences of one-character strings, so that
\* strip/split/lower can be computed as the Python code computes them.

MaxConf == 4
\* model confidences are multiples of 1/MaxConf in [0, 1]
ConfVals == 0..MaxConf

\* thresholds are given in hundredths (0.80 is 80), so that the float
\* comparisons of the code are exact: c/MaxConf < t/100
ConfBelow(c, t) == c * 100 < t * MaxConf

WS == {" ", "\t"}

RECURSIVE LStrip(_)
LStrip(s) == IF s # <<>> /\ Head(s) \in WS THEN LStrip(Tail(s)) ELSE s

RECURSIVE RStrip(_)
RStrip(s) == IF s # <<>> /\ s[Len(s)] \in WS THEN RStrip(SubSeq(s, 1, Len(s) - 1)) ELSE s

strip(s) == RStrip(LStrip(s))

RECURSIVE SplitWords(_, _, _)
SplitWords(s, cur, acc) ==
  IF s = <<>>
  THEN IF cur = <<>> THEN acc ELSE Append(acc, cur)
  ELSE IF Head(s) \in WS
       THEN SplitWords(Tail(s), <<>>, IF cur = <<>> THEN acc ELSE Append(acc, cur))
       ELSE SplitWords(Tail(s), Append(cur, Head(s)), acc)

split(s) == SplitWords(s, <<>>, <<>>)

RECURSIVE JoinSpace(_)
JoinSpace(ws) ==
  IF ws = <<>> THEN <<>>
  ELSE IF Len(ws) = 1 THEN ws[1]
  ELSE ws[1] \o <<" ">> \o JoinSpace(Tail(ws))

LowerTable == ("A" :> "a") @@ ("B" :> "b") @@ ("C" :> "c") @@ ("F" :> "f")
              @@ ("K" :> "k") @@ ("L" :> "l") @@ ("N" :> "n") @@ ("R" :> "r")
              @@ ("S" :> "s") @@ ("U" :> "u")

lower(s) == [i \in 1..Len(s) |-> IF s[i] \in DOMAIN LowerTable THEN LowerTable[s[i]] ELSE s[i]]

\* dict.get(k, default)
DictGet(d, k, default) == IF k \in DOMAIN d THEN d[k] ELSE default

EmptyDict == [k \in {} |-> <<>>]

\* Python None, kept distinct from every character sequence
None == <<"None">>

\* mapping.normalize_sender
normalize_sender(s) == JoinSpace(split(strip(s)))

canonicalize_unnormalized_lookup(mapping, sender) ==
  normalize_sender(DictGet(mapping.synonyms, sender, sender))

\* SenderMapper.canonicalize
canonicalize(mapping, sender) ==
  LET sender_n == normalize_sender(sender)
  IN normalize_sender(DictGet(mapping.synonyms, sender_n, sender_n))

\* SenderMapper.folder_for
folder_for(mapping, sender_canonical) ==
  DictGet(mapping.folders, normalize_sender(sender_canonical), None)

------------------------------------------------------------------------------
\* classifier.classify_multi_stage

MaxEvidence == 3
Stage1Model == "m1"
Stage2Model == "m2"
DocTexts == {"t1", "t2"}

\* llm.build_prompt is declared with two parameters (extracted_text,
\* known_senders); classify_multi_stage calls it with three positional
\* arguments (text, known_senders, existing_folders). Python raises TypeError
\* when the counts differ.
BuildPromptParams == 2
BuildPromptArgs == 3

build_prompt_raises == BuildPromptArgs # BuildPromptParams

\* the outcomes of llm.build_prompt as called at classifier.py 28: the code
\* raises (build_prompt_raises); a call matching its signature returns the
\* prompt
BuildPromptOutcomes == BOOLEAN

\* llm.build_prompt: a deterministic function of the text
build_prompt(text) == <<"prompt", text>>

\* what client.generate_json returns, as read by to_llm_result
RawResultsOf(senders, confs, evs, privs, folders) ==
  [sender : senders, confidence : confs, evidence : evs, is_private : privs, target_folder : folders]

\* a failing client.generate_json call (network, timeout)
RaiseCall == [sender |-> <<"raise">>, confidence |-> -1, evidence |-> -1,
              is_private |-> FALSE, target_folder |-> <<"raise">>]

\* llm.to_llm_result (confidence already clamped to [0, 1], strings stripped)
to_llm_result(raw, model) ==
  [sender |-> raw.sender, confidence |-> raw.confidence, evidence |-> raw.evidence,
   is_private |-> raw.is_private, target_folder |-> raw.target_folder, model |-> model]

NoResult == [sender |-> <<>>, confidence |-> 0, evidence |-> 0,
             is_private |-> FALSE, target_folder |-> <<>>, model |-> "none"]

good_enough(cfg, r) ==
  IF ConfBelow(r.confidence, cfg.threshold_accept) THEN FALSE
  ELSE IF cfg.require_evidence /\ r.evidence = 0 THEN FALSE
  ELSE TRUE

\* stage 2 chosen only when strictly more confident
tie_break_strict(res1, res2) == res2.confidence > res1.confidence

\* "Pick higher confidence; if tie, prefer stage2."
tie_break(res1, res2) == res2.confidence >= res1.confidence

\* classify_multi_stage with a client whose generate_json answers raw1 to the
\* first call and raw2 to the second, bp_raises telling whether the
\* build_prompt call raises. "raised" is the exception outcome; calls lists
\* the generate_json calls made.
classify_multi_stage_with(bp_raises, cfg, text, raw1, raw2) ==
  IF bp_raises
  THEN [outcome |-> "raised", calls |-> <<>>, r1 |-> NoResult, r2 |-> NoResult,
        final |-> NoResult, stage_used |-> 0]
  ELSE
  LET prompt == build_prompt(text)
      c1 == [model |-> Stage1Model, prompt |-> prompt]
      c2 == [model |-> Stage2Model, prompt |-> prompt]
      res1 == to_llm_result(raw1, Stage1Model)
      res2 == to_llm_result(raw2, Stage2Model)
  IN IF raw1 = RaiseCall
     THEN [outcome |-> "raised", calls |-> <<c1>>, r1 |-> NoResult, r2 |-> NoResult,
           final |-> NoResult, stage_used |-> 0]
     ELSE IF good_enough(cfg, res1)
     THEN [outcome |-> "done", calls |-> <<c1>>, r1 |-> res1, r2 |-> NoResult,
           final |-> res1, stage_used |-> 1]
     ELSE IF raw2 = RaiseCall
     THEN [outcome |-> "raised", calls |-> <<c1, c2>>, r1 |-> res1, r2 |-> NoResult,
           final |-> NoResult, stage_used |-> 0]
     ELSE [outcome |-> "done", calls |-> <<c1, c2>>, r1 |-> res1, r2 |-> res2,
           final |-> IF tie_break(res1, res2) THEN res2 ELSE res1,
           stage_used |-> IF tie_break(res1, res2) THEN 2 ELSE 1]

\* classifier.classify_multi_stage
classify_multi_stage(cfg, text, raw1, raw2) ==
  classify_multi_stage_with(build_prompt_raises, cfg, text, raw1, raw2)

\* threshold_accept values (hundredths), the default 0.80 among them
AcceptThresholds == {0, 75, 80, 100}

ClassifyConfigs == [threshold_accept : AcceptThresholds, require_evidence : BOOLEAN]

\* stub answers used for classify_multi_stage alone
ClassifyRaw == RawResultsOf({<<"a">>}, ConfVals, 0..MaxEvidence, {FALSE}, {<<>>}) \cup {RaiseCall}

VARIABLES ccfg, stub, cpc, calls, r1, r2, final, stage_used

classifyVars == <<ccfg, stub, cpc, calls, r1, r2, final, stage_used>>

ClassifyInit ==
  /\ ccfg \in ClassifyConfigs
  /\ stub \in [text : DocTexts, raw1 : ClassifyRaw, raw2 : ClassifyRaw, bp : {build_prompt_raises}]
  /\ cpc = "start"
  /\ calls = <<>>
  /\ r1 = NoResult
  /\ r2 = NoResult
  /\ final = NoResult
  /\ stage_used = 0

\* classify_multi_stage with either build_prompt outcome
ClassifyContractInit ==
  /\ ccfg \in ClassifyConfigs
  /\ stub \in [text : DocTexts, raw1 : ClassifyRaw, raw2 : ClassifyRaw, bp : BuildPromptOutcomes]
  /\ cpc = "start"
  /\ calls = <<>>
  /\ r1 = NoResult
  /\ r2 = NoResult
  /\ final = NoResult
  /\ stage_used = 0

ClassifyMultiStage ==
  /\ cpc = "start"
  /\ LET d == classify_multi_stage_with(stub.bp, ccfg, stub.text, stub.raw1, stub.raw2) IN
       /\ cpc' = d.outcome
       /\ calls' = d.calls
       /\ r1' = d.r1
       /\ r2' = d.r2
       /\ final' = d.final
       /\ stage_used' = d.stage_used
  /\ UNCHANGED <<ccfg, stub>>

------------------------------------------------------------------------------
\* process_one (main.py 36-321): classification (138-170), the routing
\* decision (172-232), the filename hint (236-241), resolve_collision
\* (256-264), the move unless dry_run (266-269) and the document row (277-321)

FallbackName == <<"_", "U", "n", "k", "l", "a", "r">>
UnklarSynonyms == { <<"_", "u", "n", "k", "l", "a", "r">>,
                    <<"u", "n", "k", "l", "a", "r">>,
                    <<"f", "a", "l", "l", "b", "a", "c", "k">> }

UnklarHint == <<"U", "n", "k", "l", "a", "r">>

\* paths as <<parent, name>>; cfg.paths.documents_dir is "docs"
DocumentsDir == "docs"
DocsDir(f) == <<DocumentsDir, f>>
\* target_dir = None
NoDir == <<>>

\* Path.name
path_name(p) == p[2]

\* cfg.paths.fallback_dir values: documents_dir/_Unklar, or a directory
\* outside documents_dir
FallbackDirs == {DocsDir(FallbackName), <<"review", FallbackName>>}

\* sender mappings as loaded by load_sender_mapping; the last one maps a
\* sender to a folder named like the fallback folder
Mappings == {
  [synonyms |-> (<<"a", " ", "b">> :> <<"b">>),
   folders  |-> (<<"b">> :> <<"F", "b">>) @@ (<<"a">> :> <<"F", "a">>)],
  [synonyms |-> EmptyDict,
   folders  |-> (<<"c">> :> <<"F", "c">>)],
  [synonyms |-> EmptyDict,
   folders  |-> (<<"c">> :> FallbackName)] }

\* sender_canonical values after to_llm_result (stripped)
LLMSenders == { <<>>, <<"a">>, <<"a", " ", " ", "b">>, <<"c">>, UnklarHint }
\* target_folder values after to_llm_result (stripped)
LLMFolders == { <<>>, <<"_", "U", "n", "k", "l", "a", "r">>, <<"u", "n", "k", "l", "a", "r">>,
                <<"F", "A", "L", "L", "B", "A", "C", "K">>, <<"S", "t">> }

VARIABLES rcfg, ryaml, rmap, response, ocr_failed_in, rbp, rraise, rdry, rin, rcalls,
          rpc, target_dir, routed_to_fallback, final_folder, rvia, rdir, rmoved, rrow

routeVars == <<rcfg, ryaml, rmap, response, ocr_failed_in, rbp, rraise, rdry, rin, rcalls,
               rpc, target_dir, routed_to_fallback, final_folder, rvia, rdir, rmoved, rrow>>

\* threshold_safe_to_file values (hundredths), the default 0.70 among them
SafeThresholds == {0, 70, 100}

\* the config.yaml entries the routing depends on:
\* classification.threshold_safe_to_file, mapping.route_unknown_sender_to_fallback,
\* paths.fallback_dir, and the classification keys allow_llm_folder_override
\* and llm_folder_override_min_conf
YamlConfigs == [threshold_safe_to_file : SafeThresholds,
                route_unknown_sender_to_fallback : BOOLEAN,
                fallback_dir : FallbackDirs,
                allow_llm_folder_override : BOOLEAN,
                llm_folder_override_min_conf : {0, 85}]

\* a loader that keeps every classification key of the file
load_config_routing_all_keys(y) == y

\* config.load_config: ClassificationConfig, MappingConfig and PathsConfig
\* take the fields they declare; ClassificationConfig declares neither
\* allow_llm_folder_override nor llm_folder_override_min_conf
load_config_routing(y) ==
  [threshold_safe_to_file |-> y.threshold_safe_to_file,
   route_unknown_sender_to_fallback |-> y.route_unknown_sender_to_fallback,
   fallback_dir |-> y.fallback_dir]

\* classification settings passed by process_one (config.py defaults:
\* threshold_accept 0.80, require_evidence True)
RouteClassifyConfig == [threshold_accept |-> 80, require_evidence |-> TRUE]

\* the model's answer (the same JSON for every generate_json call), or a
\* failing call (timeout, network, unparseable output)
Responses == RawResultsOf(LLMSenders, ConfVals, {1}, BOOLEAN, LLMFolders) \cup {RaiseCall}

\* where process_one raises: nowhere; before classification (stat,
\* get_pdf_metadata_date, choose_date_prefix, documents_dir.iterdir, main.py
\* 51-117); in resolve_collision (RuntimeError, main.py 256); in
\* ensure_dir/move_file (main.py 267-269); in db.insert_document (main.py
\* 321, e.g. OperationalError "database is locked" when another connection
\* holds the write lock past sqlite's timeout)
RaisePoints == {"none", "before_classify", "collision", "move", "insert"}

\* classify_multi_stage not reached
NoOutcome == [called |-> FALSE, error |-> "none", sender |-> <<>>, conf |-> 0,
              target_folder |-> <<>>, is_private |-> FALSE]

\* main.py 138-170: classification and the fields read from decision.final;
\* ocr_failed tells whether the OCR block already set error
classify_outcome(bp, ocr_failed, resp) ==
  LET d == classify_multi_stage_with(bp, RouteClassifyConfig, "t1", resp, resp)
      err == IF ocr_failed THEN "ocr" ELSE IF d.outcome = "raised" THEN "llm" ELSE "none"
  IN IF d.outcome = "done"
     THEN [called |-> TRUE, error |-> err, sender |-> d.final.sender, conf |-> d.final.confidence,
           target_folder |-> d.final.target_folder, is_private |-> d.final.is_private]
     ELSE [NoOutcome EXCEPT !.called = TRUE, !.error = err]

RouteInit ==
  /\ ryaml \in YamlConfigs
  /\ rcfg = load_config_routing(ryaml)
  /\ rmap \in Mappings
  /\ response = RaiseCall
  /\ ocr_failed_in = FALSE
  /\ rbp = build_prompt_raises
  /\ rraise = "none"
  /\ rdry = FALSE
  /\ rin = NoOutcome
  /\ rcalls = 0
  /\ rpc = "start"
  /\ target_dir = NoDir
  /\ routed_to_fallback = 0
  /\ final_folder = <<>>
  /\ rvia = "none"
  /\ rdir = FALSE
  /\ rmoved = FALSE
  /\ rrow = FALSE

\* main.py 200-203: the "fallback" suggestions
denotes_fallback(llm_target_folder) == lower(llm_target_folder) \in UnklarSynonyms

\* main.py 217-232: sender-mapping based routing
route_by_mapping_unknown_to_docs(cfg, mapping, final_sender) ==
  LET canon == canonicalize(mapping, final_sender)
      folder == folder_for(mapping, canon)
  IN IF folder = None
     THEN [rf |-> 0, ff |-> canon, td |-> DocsDir(canon), via |-> "unknown_sender"]
     ELSE [rf |-> 0, ff |-> folder, td |-> DocsDir(folder), via |-> "mapping"]

\* main.py 217-232: sender-mapping based routing
route_by_mapping(cfg, mapping, final_sender) ==
  LET canon == canonicalize(mapping, final_sender)
      folder == folder_for(mapping, canon)
  IN IF folder = None
     THEN IF cfg.route_unknown_sender_to_fallback
          THEN [rf |-> 1, ff |-> path_name(cfg.fallback_dir), td |-> cfg.fallback_dir,
                via |-> "unknown_fallback"]
          ELSE [rf |-> 0, ff |-> canon, td |-> DocsDir(canon), via |-> "unknown_sender"]
     ELSE [rf |-> 0, ff |-> folder, td |-> DocsDir(folder), via |-> "mapping"]

\* main.py 177-186: getattr(cfg.classification, name, default)
override_settings(cfg) ==
  [allow |-> IF "allow_llm_folder_override" \in DOMAIN cfg
             THEN cfg.allow_llm_folder_override ELSE FALSE,
   min_conf |-> IF "llm_folder_override_min_conf" \in DOMAIN cfg
                THEN cfg.llm_folder_override_min_conf ELSE 85]

\* routed_to_fallback without the low-confidence test
fallback_flag_no_low_conf(cfg, o) == IF o.error # "none" THEN 1 ELSE 0

\* routed_to_fallback without the error test
fallback_flag_no_error(cfg, o) ==
  IF ConfBelow(o.conf, cfg.threshold_safe_to_file) THEN 1 ELSE 0

\* main.py 172-176: routed_to_fallback after classification
fallback_flag(cfg, o) ==
  IF o.error # "none" THEN 1
  ELSE IF ConfBelow(o.conf, cfg.threshold_safe_to_file) THEN 1 ELSE 0

\* the routing decision of main.py 172-232, as a function of config, mapping
\* and classification outcome; via names the branch taken
Route(cfg, mapping, o) ==
  LET final_sender == normalize_sender(o.sender)
      ov == override_settings(cfg)
      rf0 == fallback_flag(cfg, o)
      llm_target_folder == strip(o.target_folder)
      override == /\ o.error = "none"
                  /\ ov.allow
                  /\ llm_target_folder # <<>>
                  /\ ~ConfBelow(o.conf, ov.min_conf)
  IN IF override
     THEN IF denotes_fallback(llm_target_folder) \/ o.is_private
          THEN [rf |-> 1, ff |-> path_name(cfg.fallback_dir), td |-> cfg.fallback_dir,
                via |-> "override_fallback"]
          ELSE [rf |-> rf0, ff |-> llm_target_folder, td |-> DocsDir(llm_target_folder),
                via |-> "override_folder"]
     ELSE IF rf0 = 1
          THEN [rf |-> 1, ff |-> path_name(cfg.fallback_dir), td |-> cfg.fallback_dir,
                via |-> "fallback"]
          ELSE route_by_mapping(cfg, mapping, final_sender)

\* main.py 236-241: the filename hint
filename_hint(routed, final_folder_, final_sender) ==
  IF routed = 1 THEN UnklarHint
  ELSE IF strip(final_folder_) # <<>> THEN strip(final_folder_) ELSE strip(final_sender)

\* main.py 138-232: classification of the text, then the routing decision;
\* calls is the number of generate_json calls made
process_one_route(bp, cfg, mapping, ocr_fail, resp) ==
  LET o == classify_outcome(bp, ocr_fail, resp)
  IN [o |-> o, r |-> Route(cfg, mapping, o),
      calls |-> Len(classify_multi_stage_with(bp, RouteClassifyConfig, "t1", resp, resp).calls)]

\* the move whatever dry_run says
executes_move_always(dry) == TRUE

\* main.py 266: if not dry_run
executes_move(dry) == ~dry

\* process_one on one PDF, with build_prompt outcomes bps. rdir: ensure_dir
\* ran; rmoved: move_file completed; rrow: db.insert_document stored the row
\* (main.py 321); an exception leaves process_one ("raised") and the run loop
\* catches it (main.py 433-436)
ProcessOneWith(bps) ==
  /\ rpc = "start"
  /\ \E resp \in Responses, ocr_fail \in BOOLEAN, bp \in bps, rp \in RaisePoints, dry \in BOOLEAN :
       /\ rp = "move" => executes_move(dry)
       \* raising before text extraction: no OCR ran, no model was asked
       /\ rp = "before_classify" => (resp = RaiseCall /\ ~ocr_fail)
       /\ response' = resp
       /\ ocr_failed_in' = ocr_fail
       /\ rbp' = bp
       /\ rraise' = rp
       /\ rdry' = dry
       /\ IF rp = "before_classify"
          THEN /\ rin' = NoOutcome
               /\ rcalls' = 0
               /\ target_dir' = NoDir
               /\ routed_to_fallback' = 0
               /\ final_folder' = <<>>
               /\ rvia' = "none"
               /\ rdir' = FALSE
               /\ rmoved' = FALSE
               /\ rrow' = FALSE
          ELSE LET d == process_one_route(bp, rcfg, rmap, ocr_fail, resp) IN
               /\ rin' = d.o
               /\ rcalls' = d.calls
               /\ target_dir' = d.r.td
               /\ routed_to_fallback' = d.r.rf
               /\ final_folder' = d.r.ff
               /\ rvia' = d.r.via
               /\ rdir' = (rp \in {"none", "move", "insert"} /\ executes_move(dry))
               /\ rmoved' = (rp \in {"none", "insert"} /\ executes_move(dry))
               /\ rrow' = (rp = "none")
       /\ rpc' = IF rp = "none" THEN "done" ELSE "raised"
  /\ UNCHANGED <<rcfg, ryaml, rmap>>

\* process_one as shipped: build_prompt raises
ProcessOne == ProcessOneWith({build_prompt_raises})

\* process_one with either build_prompt outcome
ProcessOneEitherPrompt == ProcessOneWith(BuildPromptOutcomes)

------------------------------------------------------------------------------
\* SenderMapper.canonicalize followed by folder_for (main.py 218-219)

MaxStrLen == 3
MapChars == {"a", "b", " ", "\t"}
Strs(A, n) == UNION {[1..k -> A] : k \in 0..n}

MapTables == {
  \* mirrors tests/test_mapping.py
  [synonyms |-> (<<"S", " ", "M", "u", "e">> :> <<"S", " ", "M", "u">>),
   folders  |-> (<<"S", " ", "M", "u">> :> <<"S", "W", "M">>)],
  [synonyms |-> (<<"a", " ", "b">> :> <<"b">>),
   folders  |-> (<<"b">> :> <<"F">>)],
  [synonyms |-> (<<"a">> :> <<" ", "b", "\t">>) @@ (<<"a", " ", " ", "b">> :> <<"a">>),
   folders  |-> (<<"b">> :> <<"F">>)],
  \* load_sender_mapping accepts any synonyms dict: a chain and a cycle
  [synonyms |-> (<<"a">> :> <<"b">>) @@ (<<"b">> :> <<"b", "b">>),
   folders  |-> (<<"b", "b">> :> <<"F">>)],
  [synonyms |-> (<<"a">> :> <<"b">>) @@ (<<"b">> :> <<"a">>),
   folders  |-> EmptyDict] }

MapInputs == Strs(MapChars, MaxStrLen) \cup {<<"S", " ", "M", "u", "e">>, <<"S", " ", "M", "u">>}

VARIABLES mmap, mpc, msender, mcanon, mfolder

mapVars == <<mmap, mpc, msender, mcanon, mfolder>>

MapInit ==
  /\ mmap \in MapTables
  /\ mpc = "start"
  /\ msender = <<>>
  /\ mcanon = <<>>
  /\ mfolder = None

CanonicalizeAndLookup ==
  /\ mpc = "start"
  /\ \E s \in MapInputs :
       LET canon == canonicalize(mmap, s) IN
       /\ msender' = s
       /\ mcanon' = canon
       /\ mfolder' = folder_for(mmap, canon)
       /\ mpc' = "done"
  /\ UNCHANGED mmap

------------------------------------------------------------------------------
\* Text extraction and OCR decision of process_one (main.py 78-110)

MaxTextLen == 2
TextChars == {"a", "1", " ", "!"}
\* str.isalnum on the characters used
AlnumChars == {"a", "b", "c", "1", "2", "3"}
Texts == Strs(TextChars, MaxTextLen)
\* min_alnum_ratio values as fractions <<num, den>>
Ratios == {<<0, 1>>, <<1, 3>>, <<1, 2>>, <<1, 1>>}

Max(a, b) == IF a >= b THEN a ELSE b
AlnumCount(t) == Cardinality({i \in 1..Len(t) : t[i] \in AlnumChars})

\* utils.alnum_ratio, as a fraction <<num, den>>
alnum_ratio(text) == IF text = <<>> THEN <<0, 1>> ELSE <<AlnumCount(text), Max(1, Len(text))>>

RatLess(x, y) == x[1] * y[2] < y[1] * x[2]

ExtractConfigs == [use_vision : BOOLEAN, min_text_chars : 0..(MaxTextLen + 1), min_alnum_ratio : Ratios]

VARIABLES ecfg, epc, textlayer_failed, text_before_ocr, ocr_invoked, ocr_failed,
          extracted_text, extraction_method, error

extractVars == <<ecfg, epc, textlayer_failed, text_before_ocr, ocr_invoked, ocr_failed,
                 extracted_text, extraction_method, error>>

ExtractInit ==
  /\ ecfg \in ExtractConfigs
  /\ epc = "start"
  /\ textlayer_failed = FALSE
  /\ text_before_ocr = <<>>
  /\ ocr_invoked = FALSE
  /\ ocr_failed = FALSE
  /\ extracted_text = <<>>
  /\ extraction_method = "textlayer"
  /\ error = "none"

\* a failing extract_textlayer / render_pages / ocr_pages_with_vision call
RaiseText == <<"raise">>

\* textlayer result after the except branch of main.py 82-88
textlayer_text(tl) == IF tl \notin Texts THEN <<>> ELSE tl

extraction_error_on_textlayer(tl, run_ocr, ocr) ==
  IF tl \notin Texts \/ (run_ocr /\ ocr \notin Texts) THEN "ocr" ELSE "none"

\* error after the extraction block: only the OCR except branch sets it
\* (main.py 82-107)
extraction_error(tl, run_ocr, ocr) == IF run_ocr /\ ocr \notin Texts THEN "ocr" ELSE "none"

need_ocr_inclusive(cfg, t) == Len(t) <= cfg.min_text_chars \/ RatLess(alnum_ratio(t), cfg.min_alnum_ratio)

need_ocr(cfg, t) == Len(t) < cfg.min_text_chars \/ RatLess(alnum_ratio(t), cfg.min_alnum_ratio)

ExtractText ==
  /\ epc = "start"
  /\ \E tl \in Texts \cup {RaiseText}, ocr \in Texts \cup {RaiseText} :
       LET t0 == textlayer_text(tl)
           run_ocr == need_ocr(ecfg, t0) /\ ecfg.use_vision
           t1 == IF run_ocr /\ ocr \in Texts THEN ocr ELSE t0
       IN /\ textlayer_failed' = (tl \notin Texts)
          /\ text_before_ocr' = t0
          /\ ocr_invoked' = run_ocr
          /\ ocr_failed' = (run_ocr /\ ocr \notin Texts)
          /\ error' = extraction_error(tl, run_ocr, ocr)
          /\ extraction_method' = IF run_ocr THEN "vision_ocr" ELSE "textlayer"
          /\ extracted_text' = strip(t1)
          /\ epc' = "done"
  /\ UNCHANGED ecfg

------------------------------------------------------------------------------
\* pipeline invocations: main() (main.py 325-443) for "run" (also the
\* default when no subcommand is given) and "gui", and the run record the GUI
\* window keeps (gui/app.py 93-104, 335-358; db.py 114-119)

MaxRuns == 3
MaxDocs == 2
MaxClock == 1

\* gui-%Y%m%d-%H%M%S: run ids have second resolution
gui_run_id(now) == now

VARIABLES clock, invocations, main_pc, run_id, dry_run, inbox, processed, recorded, moved, runs, run_log

runVars == <<clock, invocations, main_pc, run_id, dry_run, inbox, processed, recorded, moved, runs, run_log>>

RunInit ==
  /\ clock = 0
  /\ invocations = 0
  /\ main_pc = "idle"
  /\ run_id = -1
  /\ dry_run = FALSE
  /\ inbox = 0
  /\ processed = 0
  /\ recorded = 0
  /\ moved = 0
  /\ runs = [r \in {} |-> [started_at |-> 0, ended |-> FALSE]]
  /\ run_log = <<>>

\* time passes between steps
Tick ==
  /\ clock < MaxClock
  /\ clock' = clock + 1
  /\ UNCHANGED <<invocations, main_pc, run_id, dry_run, inbox, processed, recorded, moved, runs, run_log>>

\* db.start_run: INSERT OR REPLACE INTO runs(run_id, started_at)
start_run(rs, rid, now) ==
  (rid :> [started_at |-> now, ended |-> FALSE]) @@ rs

\* "pdf-filer run [--dry-run]" with n PDFs in the inbox: load_config and
\* setup_logging succeed, then main.py 375 reads load_sender_mapping, which
\* the imports of the gui branch (main.py 362-364) make a local of main() that
\* is unbound here: UnboundLocalError before Database, start_run and the loop.
\* "pdf-filer" with no subcommand: main.py 351-352 set cmd to "run", but the
\* top-level parser defines no --config (nor --dry-run), so Path(args.config)
\* at main.py 354 raises AttributeError before load_config.
MainRun ==
  /\ main_pc = "idle"
  /\ invocations < MaxRuns
  /\ \E n \in 0..MaxDocs, cmd \in {"run", "none"}, dry \in BOOLEAN :
       /\ cmd = "none" => ~dry
       /\ inbox' = n
       /\ dry_run' = dry
       /\ processed' = 0
       /\ recorded' = 0
       /\ moved' = 0
       /\ invocations' = invocations + 1
       /\ run_log' = Append(run_log, [op |-> "run", inv |-> invocations + 1,
                                      exc |-> IF cmd = "run" THEN "UnboundLocalError" ELSE "AttributeError"])
  /\ UNCHANGED <<clock, main_pc, run_id, runs>>

\* "pdf-filer gui": MainWindow.__init__ opens the store (gui/app.py 101),
\* takes the run id from one clock read (gui/app.py 102) and calls start_run,
\* which reads the clock again for started_at (db._now_iso); a second may
\* pass in between. A failing start_run (e.g. the database locked by another
\* connection) is swallowed (gui/app.py 103-106) and the window opens without
\* a run row. Database() itself raises when it cannot run its schema script
\* (e.g. "database is locked" on a new file): the exception leaves
\* MainWindow.__init__ and main(), no window opens and no run id is taken.
GuiStart ==
  /\ main_pc = "idle"
  /\ invocations < MaxRuns
  /\ invocations' = invocations + 1
  /\ \E db_opened \in BOOLEAN, later \in BOOLEAN, inserted \in BOOLEAN :
       IF db_opened
       THEN /\ later => clock < MaxClock
            /\ LET now2 == IF later THEN clock + 1 ELSE clock IN
                 /\ clock' = now2
                 /\ runs' = IF inserted THEN start_run(runs, gui_run_id(clock), now2) ELSE runs
            /\ run_id' = gui_run_id(clock)
            /\ run_log' = Append(run_log, [op |-> "gui_start", inv |-> invocations + 1, run_id |-> gui_run_id(clock)])
            /\ main_pc' = "gui"
       ELSE /\ ~later /\ ~inserted
            /\ run_log' = Append(run_log, [op |-> "gui_db_error", inv |-> invocations + 1, exc |-> "OperationalError"])
            /\ UNCHANGED <<clock, runs, run_id, main_pc>>
  /\ UNCHANGED <<dry_run, inbox, processed, recorded, moved>>

\* MainWindow.closeEvent (gui/app.py 335-358): saves settings and closes the
\* store; end_run is not called
GuiClose ==
  /\ main_pc = "gui"
  /\ main_pc' = "idle"
  /\ run_log' = Append(run_log, [op |-> "gui_close", inv |-> invocations, run_id |-> run_id])
  /\ UNCHANGED <<clock, invocations, run_id, dry_run, inbox, processed, recorded, moved, runs>>

RunDefault == RunInit

------------------------------------------------------------------------------
\* pure functions of naming.py, llm.py and pdf_text.py: arg is the input,
\* res the result

VARIABLES fpc, arg, res

pureVars == <<fpc, arg, res>>

PureDefault == fpc = "idle" /\ arg = <<>> /\ res = <<>>

------------------------------------------------------------------------------
\* naming.resolve_collision, used repeatedly: each result is created in the
\* directory before the next call (tests/test_naming.py)

SuffixBound == 2

\* collision_suffix_format values; "_x" has no {n} placeholder
SuffixFormats == {"_{n}", " ({n})", "_x"}

\* file names in the target directory, as the part after the fixed base name
\* (extension fixed): <<>> is {base}{ext} itself
format_suffix(fmt, n) ==
  IF fmt = "_{n}" THEN <<"_", n>>
  ELSE IF fmt = " ({n})" THEN <<" (", n, ")">>
  ELSE <<fmt>>

OtherFile == <<"other">>
InitialNames == {<<>>, format_suffix("_{n}", 1), format_suffix("_{n}", 2),
                 format_suffix(" ({n})", 1), <<"_x">>, OtherFile}

\* RuntimeError("Too many collisions ...")
RaiseName == <<"RuntimeError">>
Unset == <<"unset">>

RECURSIVE probe(_, _, _, _)
probe(dir, fmt, n, max_suffix) ==
  IF n > max_suffix THEN RaiseName
  ELSE IF format_suffix(fmt, n) \notin dir THEN format_suffix(fmt, n)
  ELSE probe(dir, fmt, n + 1, max_suffix)

resolve_collision_short_range(dir, fmt, max_suffix) ==
  IF <<>> \notin dir THEN <<>> ELSE probe(dir, fmt, 1, max_suffix - 1)

\* naming.resolve_collision
resolve_collision(dir, fmt, max_suffix) ==
  IF <<>> \notin dir THEN <<>> ELSE probe(dir, fmt, 1, max_suffix)

CollisionInit ==
  /\ fpc = "start"
  /\ \E d \in SUBSET InitialNames, f \in SuffixFormats, m \in 0..SuffixBound :
       arg = [dir |-> d, initial |-> d, fmt |-> f, max_suffix |-> m, prev |-> d, hist |-> <<>>]
  /\ res = Unset

\* resolve_collision, then create the returned file
ResolveAndCreate ==
  /\ fpc \in {"start", "done"}
  /\ res # RaiseName
  /\ LET r == resolve_collision(arg.dir, arg.fmt, arg.max_suffix) IN
       /\ res' = r
       /\ arg' = [arg EXCEPT !.prev = arg.dir,
                             !.dir = IF r = RaiseName THEN @ ELSE @ \cup {r},
                             !.hist = Append(@, r)]
       /\ fpc' = "done"

------------------------------------------------------------------------------
\* naming.sanitize_filename

MaxNameLen == 3

\* characters: "TAB" is a tab, "ae" is U+00E4, "FWSLASH" is U+FF0F (fullwidth
\* solidus, NFKD -> "/"), "DIAER" is U+00A8 (spacing diaeresis, NFKD -> " "
\* followed by U+0308), "COMB" is U+0308 (combining diaeresis)
NameChars == {"a", " ", ".", "/", "TAB", "ae", "FWSLASH", "DIAER"}

\* str.strip() / re \s
NameWS == {" ", "TAB"}

\* INVALID_CHARS = re.compile(r'[\\/:*?"<>|]')
INVALID_CHARS == {"\\", "/", ":", "*", "?", "\"", "<", ">", "|"}

\* unicodedata.normalize("NFKD", ch) for the modelled characters
NFKDTable == ("ae" :> <<"a", "COMB">>) @@ ("FWSLASH" :> <<"/">>)
             @@ ("DIAER" :> <<" ", "COMB">>)

\* unicodedata.combining(ch) != 0
combining(ch) == ch = "COMB"

RECURSIVE LStripSet(_, _)
LStripSet(s, cs) == IF s # <<>> /\ Head(s) \in cs THEN LStripSet(Tail(s), cs) ELSE s

RECURSIVE RStripSet(_, _)
RStripSet(s, cs) ==
  IF s # <<>> /\ s[Len(s)] \in cs THEN RStripSet(SubSeq(s, 1, Len(s) - 1), cs) ELSE s

StripSet(s, cs) == RStripSet(LStripSet(s, cs), cs)

\* WHITESPACE.sub(" ", s)
RECURSIVE CollapseWS(_)
CollapseWS(s) ==
  IF s = <<>> THEN <<>>
  ELSE IF Head(s) \in NameWS
       THEN <<" ">> \o CollapseWS(LStripSet(Tail(s), NameWS))
       ELSE <<Head(s)>> \o CollapseWS(Tail(s))

RECURSIVE NFKD(_)
NFKD(s) ==
  IF s = <<>> THEN <<>>
  ELSE (IF Head(s) \in DOMAIN NFKDTable THEN NFKDTable[Head(s)] ELSE <<Head(s)>>)
       \o NFKD(Tail(s))

Dokument == <<"D", "o", "k", "u", "m", "e", "n", "t">>

sanitize_filename(name, keep_umlauts, max_len) ==
  LET s1 == StripSet(name, NameWS)
      s2 == [i \in 1..Len(s1) |-> IF s1[i] \in INVALID_CHARS THEN "-" ELSE s1[i]]
      s3 == StripSet(CollapseWS(s2), {" ", "."})
      s4 == IF ~keep_umlauts
            THEN SelectSeq(NFKD(s3), LAMBDA ch : ~combining(ch))
            ELSE s3
      s5 == IF s4 = <<>> THEN Dokument ELSE s4
  IN IF Len(s5) > max_len THEN RStripSet(SubSeq(s5, 1, max_len), {" ", "."}) ELSE s5

\* tests/test_naming.py: "  Rechnung: Telekom/DSL  " -> "Rechnung- Telekom-DSL"
SanitizeExampleIn ==
  <<" ", " ", "R", "e", "c", "h", "n", "u", "n", "g", ":", " ", "T", "e", "l", "e",
    "k", "o", "m", "/", "D", "S", "L", " ", " ">>
SanitizeExampleOut ==
  <<"R", "e", "c", "h", "n", "u", "n", "g", "-", " ", "T", "e", "l", "e",
    "k", "o", "m", "-", "D", "S", "L">>

\* renaming.filename_max_len values: the default and a short one
MaxLens == {2, 120}

SanitizeInit ==
  /\ fpc = "start"
  /\ \E n \in Strs(NameChars, MaxNameLen) \cup {SanitizeExampleIn},
        k \in BOOLEAN, m \in MaxLens :
       arg = [name |-> n, keep_umlauts |-> k, max_len |-> m]
  /\ res = Unset

Sanitize ==
  /\ fpc = "start"
  /\ res' = sanitize_filename(arg.name, arg.keep_umlauts, arg.max_len)
  /\ fpc' = "done"
  /\ UNCHANGED arg

------------------------------------------------------------------------------
\* llm._normalize_filename_label

MaxLabelLen == 4

\* "ae" is U+00E4 (kept), "eacute" is U+00E9 (a letter outside the kept set),
\* "1" a decimal digit
LabelChars == {"a", "ae", " ", ".", "1", "eacute"}

\* [A-Za-zÄÖÜäöüß]
KeptLetters ==
  {"a", "b", "c", "d", "e", "f", "g", "h", "i", "j", "k", "l", "m", "n", "o",
   "p", "q", "r", "s", "t", "u", "v", "w", "x", "y", "z",
   "A", "B", "C", "D", "E", "F", "G", "H", "I", "J", "K", "L", "M", "N", "O",
   "P", "Q", "R", "S", "T", "U", "V", "W", "X", "Y", "Z",
   "AE", "OE", "UE", "ae", "oe", "ue", "ss"}

\* \d
Digits == {"0", "1", "2", "3", "4", "5", "6", "7", "8", "9"}

\* label.strip(" .-_\"'“”„")
LabelStripChars == {" ", ".", "-", "_", "\"", "'", "LDQUO", "RDQUO", "LOWDQUO"}

LabelMaxChars == 32
LabelMaxWords == 3

RepeatA(n) == [i \in 1..n |-> "a"]

\* labels long enough to reach the word and character caps
LongLabels ==
  { JoinSpace(<<RepeatA(15), RepeatA(15), RepeatA(5)>>),
    JoinSpace(<<RepeatA(12), RepeatA(12), RepeatA(12)>>),
    JoinSpace(<<RepeatA(2), RepeatA(2), RepeatA(2), RepeatA(2)>>),
    JoinSpace(<<RepeatA(10), RepeatA(10), RepeatA(10), RepeatA(10)>>),
    JoinSpace(<<RepeatA(12), <<"1">>, RepeatA(12)>>) }

normalize_label_tail(label) ==
  LET s4 == [i \in 1..Len(label) |-> IF label[i] \in KeptLetters THEN label[i] ELSE " "]
      s5 == strip(CollapseWS(s4))
      words == split(s5)
      s6 == IF Len(words) > LabelMaxWords THEN JoinSpace(SubSeq(words, 1, LabelMaxWords)) ELSE s5
      s7 == IF Len(s6) > LabelMaxChars THEN RStrip(SubSeq(s6, 1, LabelMaxChars)) ELSE s6
  IN IF Len(words) = 0 THEN Dokument
     ELSE IF s7 = <<>> THEN Dokument ELSE s7

_normalize_filename_label_no_digit_check(label) ==
  LET s3 == StripSet(CollapseWS(strip(label)), LabelStripChars)
  IN IF s3 = <<>> THEN Dokument ELSE normalize_label_tail(s3)

\* llm._normalize_filename_label
_normalize_filename_label(label) ==
  LET s3 == StripSet(CollapseWS(strip(label)), LabelStripChars)
  IN IF s3 = <<>> THEN Dokument
     ELSE IF \E i \in 1..Len(s3) : s3[i] \in Digits THEN Dokument
     ELSE normalize_label_tail(s3)

LabelInit ==
  /\ fpc = "start"
  /\ \E l \in Strs(LabelChars, MaxLabelLen) \cup LongLabels : arg = [label |-> l]
  /\ res = Unset

NormalizeLabel ==
  /\ fpc = "start"
  /\ res' = _normalize_filename_label(arg.label)
  /\ fpc' = "done"
  /\ UNCHANGED arg

------------------------------------------------------------------------------
\* llm._safe_parse_json

MaxJsonLen == 6

\* response tokens: "{" and "}" braces, "p" a complete member ("a": 1),
\* "q" a key awaiting a value ("b": ), "," a member separator, "x" any other
\* text
JsonTokens == {"{", "}", "p", "q", "x"}

\* json.loads accepts exactly one object:
\*   object := "{" "}" | "{" member ("," member)* "}"
\*   member := "p" | "q" object
\* each returns the index just past what it parsed, or -1
RECURSIVE ParseObj(_, _), ParseMembers(_, _), ParseMember(_, _)
ParseObj(s, i) ==
  IF i <= Len(s) /\ s[i] = "{"
  THEN IF i + 1 <= Len(s) /\ s[i + 1] = "}" THEN i + 2 ELSE ParseMembers(s, i + 1)
  ELSE -1
ParseMembers(s, i) ==
  LET j == ParseMember(s, i) IN
    IF j = -1 THEN -1
    ELSE IF j <= Len(s) /\ s[j] = "}" THEN j + 1
    ELSE IF j <= Len(s) /\ s[j] = "," THEN ParseMembers(s, j + 1)
    ELSE -1
ParseMember(s, i) ==
  IF i <= Len(s) /\ s[i] = "p" THEN i + 1
  ELSE IF i <= Len(s) /\ s[i] = "q" THEN ParseObj(s, i + 1)
  ELSE -1

\* json.loads(s) succeeds
json_loads_ok(s) == Len(s) > 0 /\ ParseObj(s, 1) = Len(s) + 1

\* _JSON_OBJ_RE = re.compile(r"\{.*?\}", re.DOTALL): first "{" and the first
\* "}" after it; <<>> when there is no match
json_obj_re_search(s) ==
  IF \E i \in 1..Len(s) : s[i] = "{" /\ \E j \in (i + 1)..Len(s) : s[j] = "}"
  THEN LET i == CHOOSE i \in 1..Len(s) : s[i] = "{" /\ \A k \in 1..(i - 1) : s[k] # "{"
           j == CHOOSE j \in (i + 1)..Len(s) : s[j] = "}" /\ \A k \in (i + 1)..(j - 1) : s[k] # "}"
       IN SubSeq(s, i, j)
  ELSE <<>>

\* json.JSONDecodeError
RaiseJson == <<"JSONDecodeError">>

\* llm._safe_parse_json: the parsed object, or RaiseJson
_safe_parse_json(text) ==
  IF json_loads_ok(text) THEN text
  ELSE LET m == json_obj_re_search(text) IN
         IF m = <<>> THEN RaiseJson
         ELSE IF json_loads_ok(m) THEN m ELSE RaiseJson

\* responses with separators, beyond the enumerated ones
JsonExtraInputs ==
  { <<"x", "{", "p", ",", "q", "{", "p", "}", "}", "x">>,
    <<"x", "{", "p", ",", "p", "}", "x">> }

JsonInit ==
  /\ fpc = "start"
  /\ \E t \in Strs(JsonTokens, MaxJsonLen) \cup JsonExtraInputs : arg = [text |-> t]
  /\ res = Unset

SafeParseJson ==
  /\ fpc = "start"
  /\ res' = _safe_parse_json(arg.text)
  /\ fpc' = "done"
  /\ UNCHANGED arg

------------------------------------------------------------------------------
\* pdf_text.choose_date_prefix

MaxPrio == 3

\* renaming.date_source_priority entries: the known sources, one in upper
\* case, and an unknown one
PrioNames == {"pdf_meta", "file_birthtime", "mtime", "today", "PDF_META", "exif"}

\* str(src).lower() on the modelled names
LowerName(n) == IF n = "PDF_META" THEN "pdf_meta" ELSE n

\* get_pdf_metadata_date: a parsed date, None, or an exception from
\* fitz.open on a file it cannot open (no try around it)
PdfMetaOutcomes == {"date", "none", "raise"}
\* get_file_birthtime_date / get_file_mtime_date catch every exception
StatOutcomes == {"date", "none"}

\* the dates each source yields, and dt.date.today()
DateOf == [pdf_meta |-> "D_pdf", file_birthtime |-> "D_birth", mtime |-> "D_mtime", today |-> "D_today"]

RaiseDate == [date |-> "raise", source |-> "raise"]

RECURSIVE choose_from(_, _, _)
choose_from(prio, i, o) ==
  IF i > Len(prio) THEN [date |-> DateOf.today, source |-> "today"]
  ELSE LET src == LowerName(prio[i]) IN
    IF src = "pdf_meta"
    THEN IF o.pdf_meta = "raise" THEN RaiseDate
         ELSE IF o.pdf_meta = "date" THEN [date |-> DateOf.pdf_meta, source |-> "pdf_meta"]
         ELSE choose_from(prio, i + 1, o)
    ELSE IF src = "file_birthtime"
    THEN IF o.file_birthtime = "date" THEN [date |-> DateOf.file_birthtime, source |-> "file_birthtime"]
         ELSE choose_from(prio, i + 1, o)
    ELSE IF src = "mtime"
    THEN IF o.mtime = "date" THEN [date |-> DateOf.mtime, source |-> "mtime"]
         ELSE choose_from(prio, i + 1, o)
    ELSE IF src = "today"
    THEN [date |-> DateOf.today, source |-> "today"]
    ELSE choose_from(prio, i + 1, o)

\* pdf_text.choose_date_prefix
choose_date_prefix(prio, o) == choose_from(prio, 1, o)

DateInit ==
  /\ fpc = "start"
  /\ \E p \in Strs(PrioNames, MaxPrio), pm \in PdfMetaOutcomes,
        bt \in StatOutcomes, mt \in StatOutcomes :
       arg = [prio |-> p, outcome |-> [pdf_meta |-> pm, file_birthtime |-> bt, mtime |-> mt]]
  /\ res = Unset

ChooseDatePrefix ==
  /\ fpc = "start"
  /\ res' = choose_date_prefix(arg.prio, arg.outcome)
  /\ fpc' = "done"
  /\ UNCHANGED arg

------------------------------------------------------------------------------
\* db.Database.insert_document / get_latest_by_fingerprint on the documents
\* table (id INTEGER PRIMARY KEY AUTOINCREMENT)

MaxDbDocs == 3

\* stored file_fingerprint values; None is SQL NULL
StoredFingerprints == {<<"f">>, <<"g">>, <<" ", "f">>, <<>>, None}
\* arguments of get_latest_by_fingerprint
QueryFingerprints == {<<"f">>, <<"g">>, <<" ", "f">>, <<>>, <<" ">>, None}

\* fetchone() returned no row
NoRow == [id |-> 0, fp |-> <<"NoRow">>]

\* (fp or "").strip()
query_key(fp) == strip(IF fp = None THEN <<>> ELSE fp)

\* SELECT * FROM documents WHERE file_fingerprint = ? ORDER BY id ASC LIMIT 1
get_latest_by_fingerprint_oldest(rows, fp) ==
  LET key == query_key(fp)
      hits == {i \in 1..Len(rows) : rows[i].fp # None /\ rows[i].fp = key}
  IN IF key = <<>> \/ hits = {} THEN NoRow
     ELSE rows[CHOOSE i \in hits : \A j \in hits : rows[i].id <= rows[j].id]

\* Database.get_latest_by_fingerprint: WHERE file_fingerprint = ? (NULL never
\* matches) ORDER BY id DESC LIMIT 1
get_latest_by_fingerprint(rows, fp) ==
  LET key == query_key(fp)
      hits == {i \in 1..Len(rows) : rows[i].fp # None /\ rows[i].fp = key}
  IN IF key = <<>> \/ hits = {} THEN NoRow
     ELSE rows[CHOOSE i \in hits : \A j \in hits : rows[i].id >= rows[j].id]

DbInit ==
  /\ fpc = "start"
  /\ arg = [rows |-> <<>>, next_id |-> 1, query |-> <<>>]
  /\ res = NoRow

\* Database.insert_document: the row gets the next AUTOINCREMENT id
InsertDocument ==
  /\ Len(arg.rows) < MaxDbDocs
  /\ \E fp \in StoredFingerprints :
       arg' = [arg EXCEPT !.rows = Append(@, [id |-> arg.next_id, fp |-> fp]),
                          !.next_id = @ + 1]
  /\ fpc' = "inserted"
  /\ UNCHANGED res

LookupFingerprint ==
  /\ \E q \in QueryFingerprints :
       /\ res' = get_latest_by_fingerprint(arg.rows, q)
       /\ arg' = [arg EXCEPT !.query = q]
  /\ fpc' = "looked"

------------------------------------------------------------------------------
\* utils.file_fingerprint_sha256 and reprocessing a file with the GUI's
\* Analyze (MainWindow.on_dry_run), the code that writes and reads the cache

MaxReprocess == 2

\* max_bytes, scaled down to the modelled file sizes
FingerprintMaxBytes == 1

\* file contents; "00" and "01" share size and leading byte
FileContents == {<<"0">>, <<"1">>, <<"0", "0">>, <<"0", "1">>}
FileNames == {"a.pdf", "b.pdf"}

\* str(size) for the modelled sizes (single digits)
DigitStr(n) == << <<"0", "1", "2", "3", "4", "5", "6", "7", "8", "9">>[n + 1] >>

\* the bytes hashed: str(size), "|", then the first max_bytes bytes; sha256 is
\* taken as collision-free, so the digest is represented by this input
file_fingerprint_sha256_with_name(path, content) ==
  <<path>> \o DigitStr(Len(content)) \o <<"|">>
    \o SubSeq(content, 1, IF Len(content) < FingerprintMaxBytes THEN Len(content) ELSE FingerprintMaxBytes)

\* utils.file_fingerprint_sha256
file_fingerprint_sha256(path, content) ==
  DigitStr(Len(content)) \o <<"|">>
    \o SubSeq(content, 1, IF Len(content) < FingerprintMaxBytes THEN Len(content) ELSE FingerprintMaxBytes)

\* fitz can open the file: the contents starting with "0" are well-formed
\* PDFs, the others are not
Readable(content) == content[1] = "0"

ReprocessInit ==
  /\ fpc = "start"
  /\ \E n \in FileNames, c \in FileContents :
       arg = [file |-> [name |-> n, content |-> c], rows |-> <<>>, prev |-> <<>>, next_id |-> 1,
              steps |-> 0, full |-> FALSE, insert_failed |-> FALSE]
  /\ res = NoRow

\* a different file arrives in the inbox
NewFile ==
  /\ \E n \in FileNames, c \in FileContents :
       arg' = [arg EXCEPT !.file = [name |-> n, content |-> c]]
  /\ fpc' = "new"
  /\ UNCHANGED res

\* the same bytes under another name (local rename, or moved back)
RenameFile ==
  /\ \E n \in FileNames \ {arg.file.name} :
       arg' = [arg EXCEPT !.file.name = n]
  /\ fpc' = "renamed"
  /\ UNCHANGED res

\* one file of MainWindow.on_dry_run (gui/app.py 426-480). Unless "full"
\* (the "Dry-Run (Analyze)" button), the latest record with the file's
\* fingerprint is reused and nothing is written. Otherwise analyze_pdf runs:
\* on a file fitz cannot open, choose_date_prefix (gui/analyzer.py 38,
\* outside any try; get_pdf_metadata_date does not catch fitz.open) raises
\* and the exception leaves on_dry_run; otherwise it returns an item whose
\* error is set (classify_multi_stage is called without existing_folders and
\* the TypeError is caught at gui/analyzer.py 93-96), which
\* persist_item_to_db appends; a failing insert_document (e.g. "database is
\* locked") is swallowed (gui/app.py 477-480) and nothing is appended. Then
\* the cache lookup for the fingerprint.
ProcessFile ==
  /\ arg.steps < MaxReprocess
  /\ \E full \in BOOLEAN, insert_ok \in BOOLEAN :
       LET outcome == IF Readable(arg.file.content) THEN "error" ELSE "raise"
           fp == file_fingerprint_sha256(arg.file.name, arg.file.content)
           cached == IF full THEN NoRow ELSE get_latest_by_fingerprint(arg.rows, fp)
           row == [id |-> arg.next_id, fp |-> fp, name |-> arg.file.name,
                   content |-> arg.file.content, error |-> outcome]
           persisting == cached = NoRow /\ outcome # "raise"
           rows2 == IF persisting /\ insert_ok THEN Append(arg.rows, row) ELSE arg.rows
       IN /\ arg' = [arg EXCEPT !.rows = rows2, !.prev = arg.rows,
                                !.next_id = IF rows2 = arg.rows THEN @ ELSE @ + 1,
                                !.steps = @ + 1, !.full = full,
                                !.insert_failed = persisting /\ ~insert_ok]
          /\ res' = get_latest_by_fingerprint(rows2, fp)
  /\ fpc' = "processed"

------------------------------------------------------------------------------
\* db.Database.__init__: executescript(SCHEMA), then _ensure_column for the
\* columns later versions added, then the fingerprint index

MaxStarts == 2

\* documents columns created by SCHEMA
SchemaCols ==
  {"id", "run_id", "input_path", "original_filename", "file_fingerprint",
   "naming_template", "file_size_bytes", "file_created_at", "pdf_meta_created_at",
   "chosen_date_prefix", "date_source", "extraction_method", "pages_processed",
   "extracted_char_count", "final_sender_canonical", "final_confidence",
   "final_document_type", "final_filename_label", "final_evidence", "final_notes",
   "final_final_filename", "final_target_folder", "final_target_path",
   "routed_to_fallback", "stage_used", "llm_model_stage1", "llm_model_stage2",
   "llm_target_folder", "llm_is_private", "llm_folder_reason",
   "llm_raw_json_stage1", "llm_raw_json_stage2", "llm_raw_json_final", "error",
   "processed_at"}

\* the _ensure_column calls, in order
EnsuredCols == <<"final_filename_label", "final_evidence", "final_notes",
                 "final_final_filename", "file_fingerprint", "llm_target_folder",
                 "llm_is_private", "llm_folder_reason", "naming_template">>

EnsuredSet == {EnsuredCols[i] : i \in 1..Len(EnsuredCols)}

\* the CREATE INDEX statements of SCHEMA, in order, with their column
SchemaIndexes == <<[name |-> "idx_documents_run_id", col |-> "run_id"],
                   [name |-> "idx_documents_sender", col |-> "final_sender_canonical"],
                   [name |-> "idx_documents_fingerprint", col |-> "file_fingerprint"]>>

\* no documents table yet
NoTable == {"NO_TABLE"}

\* stored rows, opaque
DbRowsData == {"empty", "rows"}

\* executescript with the fingerprint index left to the guarded statement
schema_script_without_fingerprint_index(cols, idx) ==
  LET cols1 == IF cols = NoTable THEN SchemaCols ELSE cols
  IN [cols |-> cols1,
      idx |-> idx \cup {SchemaIndexes[i].name : i \in 1..2},
      raised |-> FALSE]

\* executescript(SCHEMA): tables if missing, then each CREATE INDEX in order;
\* an index on a missing column raises OperationalError and stops the script,
\* leaving the indexes created before it
schema_script(cols, idx) ==
  LET cols1 == IF cols = NoTable THEN SchemaCols ELSE cols
      RECURSIVE go(_, _)
      go(i, ix) ==
        IF i > Len(SchemaIndexes) THEN [cols |-> cols1, idx |-> ix, raised |-> FALSE]
        ELSE IF SchemaIndexes[i].col \notin cols1
             THEN [cols |-> cols1, idx |-> ix, raised |-> TRUE]
             ELSE go(i + 1, ix \cup {SchemaIndexes[i].name})
  IN go(1, idx)

\* Database.__init__ on a database file with documents columns cols
database_init(cols, idx) ==
  LET s == schema_script(cols, idx)
  IN IF s.raised THEN s
     ELSE LET cols2 == s.cols \cup EnsuredSet
          IN [cols |-> cols2, idx |-> s.idx \cup {"idx_documents_fingerprint"}, raised |-> FALSE]

MigrateInit ==
  /\ fpc = "start"
  /\ \E missing \in SUBSET EnsuredSet, fresh \in BOOLEAN, data \in DbRowsData :
       LET cols == IF fresh THEN NoTable ELSE SchemaCols \ missing
       IN arg = [cols |-> cols, idx |-> IF fresh THEN {} ELSE {"idx_documents_run_id"},
                 rows |-> IF fresh THEN "empty" ELSE data,
                 prev_cols |-> cols, prev_rows |-> IF fresh THEN "empty" ELSE data,
                 starts |-> 0]
  /\ res = "none"

\* Database(db_path)
StartDatabase ==
  /\ arg.starts < MaxStarts
  /\ LET r == database_init(arg.cols, arg.idx) IN
       /\ arg' = [arg EXCEPT !.cols = r.cols, !.idx = r.idx, !.prev_cols = arg.cols,
                             !.prev_rows = arg.rows, !.starts = @ + 1]
       /\ res' = IF r.raised THEN "OperationalError" ELSE "started"
  /\ fpc' = "done"

------------------------------------------------------------------------------
\* mover.move_file: ensure_dir(dst.parent); shutil.move(src, dst)

\* os.rename: succeeds, or raises OSError (EXDEV across filesystems, or any
\* other OSError); shutil.move then copies and unlinks
RenameOutcomes == {"ok", "oserror"}
\* copy2 to the destination: completes, fails before writing (open), or
\* fails after writing part of the file (disk full, I/O error)
CopyOutcomes == {"ok", "fail_open", "fail_mid"}
\* os.unlink(src) after the copy
UnlinkOutcomes == {"ok", "fail"}

\* shutil.move on a regular file whose destination does not exist
shutil_move(rename, copy, unlink) ==
  IF rename = "ok" THEN [src |-> "absent", dst |-> "full", raised |-> FALSE]
  ELSE IF copy = "fail_open" THEN [src |-> "intact", dst |-> "absent", raised |-> TRUE]
  ELSE IF copy = "fail_mid" THEN [src |-> "intact", dst |-> "partial", raised |-> TRUE]
  ELSE IF unlink = "fail" THEN [src |-> "intact", dst |-> "full", raised |-> TRUE]
  ELSE [src |-> "absent", dst |-> "full", raised |-> FALSE]

MaxMoves == 3

\* the inbox and the archive are on the same filesystem or not; each move_file
\* of a run draws its own outcomes (across filesystems os.rename always
\* raises EXDEV)
MoveInit ==
  /\ fpc = "start"
  /\ \E same_fs \in BOOLEAN :
       arg = [same_fs |-> same_fs, last |-> [rename |-> "ok", copy |-> "ok", unlink |-> "ok"]]
  /\ res = <<>>

\* move_file for the next document of the run
MoveFile ==
  /\ Len(res) < MaxMoves
  /\ \E rn \in RenameOutcomes, cp \in CopyOutcomes, ul \in UnlinkOutcomes :
       /\ (~arg.same_fs => rn = "oserror")
       /\ arg' = [arg EXCEPT !.last = [rename |-> rn, copy |-> cp, unlink |-> ul]]
       /\ res' = Append(res, shutil_move(rn, cp, ul))
  /\ fpc' = "done"

------------------------------------------------------------------------------
\* documents of one run that produce the same base name in the same target
\* directory, each handled by process_one as the run loop calls it (main.py
\* 401-413): resolve_collision, then the file is moved there unless dry_run,
\* then the row with final_target_path = the planned path.

MaxSameName == 3

\* one such document: resolve_collision (main.py 256-264), then the move
\* unless dry_run (main.py 266-269)
PlanSameName ==
  /\ Len(res) + arg.failed < MaxSameName
  /\ LET planned == resolve_collision(arg.dir, "_{n}", arg.max_suffix) IN
       IF planned = RaiseName
       THEN /\ res' = res
            /\ arg' = [arg EXCEPT !.failed = @ + 1]
       ELSE /\ res' = Append(res, planned)
            /\ arg' = [arg EXCEPT !.dir = IF arg.dry_run THEN @ ELSE @ \cup {planned}]
  /\ fpc' = "done"

SameNameInit ==
  /\ fpc = "start"
  /\ \E d \in SUBSET {<<>>, <<"_", 1>>, OtherFile}, dry \in BOOLEAN, m \in 1..SuffixBound :
       arg = [dir |-> d, dry_run |-> dry, max_suffix |-> m, failed |-> 0]
  /\ res = <<>>

------------------------------------------------------------------------------

vars == <<routeVars, classifyVars, mapVars, extractVars, runVars, pureVars>>

RouteDefault ==
  /\ ryaml = [threshold_safe_to_file |-> 70, route_unknown_sender_to_fallback |-> FALSE,
              fallback_dir |-> DocsDir(FallbackName), allow_llm_folder_override |-> FALSE,
              llm_folder_override_min_conf |-> 85]
  /\ rcfg = load_config_routing(ryaml)
  /\ rmap = [synonyms |-> EmptyDict, folders |-> EmptyDict]
  /\ response = RaiseCall /\ ocr_failed_in = FALSE /\ rbp = build_prompt_raises
  /\ rraise = "none" /\ rdry = FALSE /\ rin = NoOutcome /\ rcalls = 0
  /\ rpc = "idle" /\ target_dir = NoDir /\ routed_to_fallback = 0 /\ final_folder = <<>>
  /\ rvia = "none" /\ rdir = FALSE /\ rmoved = FALSE /\ rrow = FALSE

ClassifyDefault ==
  /\ ccfg = [threshold_accept |-> 0, require_evidence |-> FALSE]
  /\ stub = [text |-> "t1", raw1 |-> RaiseCall, raw2 |-> RaiseCall, bp |-> build_prompt_raises]
  /\ cpc = "idle" /\ calls = <<>> /\ r1 = NoResult /\ r2 = NoResult /\ final = NoResult /\ stage_used = 0

MapDefault ==
  /\ mmap = [synonyms |-> EmptyDict, folders |-> EmptyDict]
  /\ mpc = "idle" /\ msender = <<>> /\ mcanon = <<>> /\ mfolder = None

ExtractDefault ==
  /\ ecfg = [use_vision |-> FALSE, min_text_chars |-> 0, min_alnum_ratio |-> <<0, 1>>]
  /\ epc = "idle" /\ textlayer_failed = FALSE /\ text_before_ocr = <<>> /\ ocr_invoked = FALSE
  /\ ocr_failed = FALSE /\ extracted_text = <<>> /\ extraction_method = "textlayer" /\ error = "none"

\* process_one
Init == RouteInit /\ ClassifyDefault /\ MapDefault /\ ExtractDefault /\ RunDefault /\ PureDefault
Next == ProcessOne /\ UNCHANGED <<classifyVars, mapVars, extractVars, runVars, pureVars>>
Spec == Init /\ [][Next]_vars

\* process_one with either build_prompt outcome
RoutingNext == ProcessOneEitherPrompt /\ UNCHANGED <<classifyVars, mapVars, extractVars, runVars, pureVars>>
RoutingSpec == Init /\ [][RoutingNext]_vars

\* classify_multi_stage
ClassifyInitAll == ClassifyInit /\ RouteDefault /\ MapDefault /\ ExtractDefault /\ RunDefault /\ PureDefault
ClassifyNext == ClassifyMultiStage /\ UNCHANGED <<routeVars, mapVars, extractVars, runVars, pureVars>>
ClassifySpec == ClassifyInitAll /\ [][ClassifyNext]_vars

\* classify_multi_stage with either build_prompt outcome
ClassifyContractInitAll == ClassifyContractInit /\ RouteDefault /\ MapDefault /\ ExtractDefault /\ RunDefault /\ PureDefault
ClassifyContractSpec == ClassifyContractInitAll /\ [][ClassifyNext]_vars

\* canonicalize / folder_for
MapInitAll == MapInit /\ RouteDefault /\ ClassifyDefault /\ ExtractDefault /\ RunDefault /\ PureDefault
MapNext == CanonicalizeAndLookup /\ UNCHANGED <<routeVars, classifyVars, extractVars, runVars, pureVars>>
MapSpec == MapInitAll /\ [][MapNext]_vars

\* text extraction / OCR decision of process_one
ExtractInitAll == ExtractInit /\ RouteDefault /\ ClassifyDefault /\ MapDefault /\ RunDefault /\ PureDefault
ExtractNext == ExtractText /\ UNCHANGED <<routeVars, classifyVars, mapVars, runVars, pureVars>>
ExtractSpec == ExtractInitAll /\ [][ExtractNext]_vars

\* pipeline invocations (main)
RunInitAll == RunInit /\ RouteDefault /\ ClassifyDefault /\ MapDefault /\ ExtractDefault /\ PureDefault
RunNext == (MainRun \/ GuiStart \/ GuiClose \/ Tick)
           /\ UNCHANGED <<routeVars, classifyVars, mapVars, extractVars, pureVars>>
RunSpec == RunInitAll /\ [][RunNext]_vars

\* resolve_collision, repeated
CollisionInitAll == CollisionInit /\ RouteDefault /\ ClassifyDefault /\ MapDefault /\ ExtractDefault /\ RunDefault
CollisionNext == ResolveAndCreate /\ UNCHANGED <<routeVars, classifyVars, mapVars, extractVars, runVars>>
CollisionSpec == CollisionInitAll /\ [][CollisionNext]_vars

\* sanitize_filename
SanitizeInitAll == SanitizeInit /\ RouteDefault /\ ClassifyDefault /\ MapDefault /\ ExtractDefault /\ RunDefault
SanitizeNext == Sanitize /\ UNCHANGED <<routeVars, classifyVars, mapVars, extractVars, runVars>>
SanitizeSpec == SanitizeInitAll /\ [][SanitizeNext]_vars

\* _normalize_filename_label
LabelInitAll == LabelInit /\ RouteDefault /\ ClassifyDefault /\ MapDefault /\ ExtractDefault /\ RunDefault
LabelNext == NormalizeLabel /\ UNCHANGED <<routeVars, classifyVars, mapVars, extractVars, runVars>>
LabelSpec == LabelInitAll /\ [][LabelNext]_vars

\* _safe_parse_json
JsonInitAll == JsonInit /\ RouteDefault /\ ClassifyDefault /\ MapDefault /\ ExtractDefault /\ RunDefault
JsonNext == SafeParseJson /\ UNCHANGED <<routeVars, classifyVars, mapVars, extractVars, runVars>>
JsonSpec == JsonInitAll /\ [][JsonNext]_vars

\* choose_date_prefix
DateInitAll == DateInit /\ RouteDefault /\ ClassifyDefault /\ MapDefault /\ ExtractDefault /\ RunDefault
DateNext == ChooseDatePrefix /\ UNCHANGED <<routeVars, classifyVars, mapVars, extractVars, runVars>>
DateSpec == DateInitAll /\ [][DateNext]_vars

\* documents table
DbInitAll == DbInit /\ RouteDefault /\ ClassifyDefault /\ MapDefault /\ ExtractDefault /\ RunDefault
DbNext == (InsertDocument \/ LookupFingerprint) /\ UNCHANGED <<routeVars, classifyVars, mapVars, extractVars, runVars>>
DbSpec == DbInitAll /\ [][DbNext]_vars

\* reprocessing one file
ReprocessInitAll == ReprocessInit /\ RouteDefault /\ ClassifyDefault /\ MapDefault /\ ExtractDefault /\ RunDefault
ReprocessNext == (NewFile \/ RenameFile \/ ProcessFile) /\ UNCHANGED <<routeVars, classifyVars, mapVars, extractVars, runVars>>
ReprocessSpec == ReprocessInitAll /\ [][ReprocessNext]_vars

\* starting the store on existing database files
MigrateInitAll == MigrateInit /\ RouteDefault /\ ClassifyDefault /\ MapDefault /\ ExtractDefault /\ RunDefault
MigrateNext == StartDatabase /\ UNCHANGED <<routeVars, classifyVars, mapVars, extractVars, runVars>>
MigrateSpec == MigrateInitAll /\ [][MigrateNext]_vars

\* move_file
MoveInitAll == MoveInit /\ RouteDefault /\ ClassifyDefault /\ MapDefault /\ ExtractDefault /\ RunDefault
MoveNext == MoveFile /\ UNCHANGED <<routeVars, classifyVars, mapVars, extractVars, runVars>>
MoveSpec == MoveInitAll /\ [][MoveNext]_vars

\* same-named documents of one run
SameNameInitAll == SameNameInit /\ RouteDefault /\ ClassifyDefault /\ MapDefault /\ ExtractDefault /\ RunDefault
SameNameNext == PlanSameName /\ UNCHANGED <<routeVars, classifyVars, mapVars, extractVars, runVars>>
SameNameSpec == SameNameInitAll /\ [][SameNameNext]_vars

------------------------------------------------------------------------------
\* Properties

\* process_one reached classify_multi_stage and has returned or raised
Classified == rpc # "start" /\ rin.called

C5_LowConfidenceFallback ==
  (Classified /\ ~rin.is_private /\ ConfBelow(rin.conf, rcfg.threshold_safe_to_file)) =>
    target_dir = rcfg.fallback_dir

C5_Witness ==
  /\ Classified /\ rin.error = "none" /\ ~rin.is_private
  /\ ConfBelow(rin.conf, rcfg.threshold_safe_to_file)
  /\ rvia = "fallback" /\ rin.sender = <<"c">>

\* preconditions of the LLM folder override rule (C6): classification
\* returned without error, the override switched on in config.yaml
OverrideCase ==
  /\ Classified
  /\ rin.error = "none"
  /\ ryaml.allow_llm_folder_override
  /\ ~rin.is_private
  /\ ~ConfBelow(rin.conf, rcfg.threshold_safe_to_file)
  /\ strip(rin.target_folder) # <<>>
  /\ ~ConfBelow(rin.conf, ryaml.llm_folder_override_min_conf)

MappingCase ==
  /\ Classified
  /\ rin.error = "none"
  /\ ~rin.is_private
  /\ ~ConfBelow(rin.conf, rcfg.threshold_safe_to_file)
  /\ ~(ryaml.allow_llm_folder_override /\ strip(rin.target_folder) # <<>>
       /\ ~ConfBelow(rin.conf, ryaml.llm_folder_override_min_conf))

\* C7: when no earlier rule applies, the canonicalized sender's mapped folder
\* is used; an unmapped sender goes to fallback when
\* route_unknown_sender_to_fallback holds, else to documents_dir/<canonical>.
C7_MappingRouting ==
  MappingCase =>
    LET canon == canonicalize(rmap, normalize_sender(rin.sender))
        folder == folder_for(rmap, canon)
    IN IF folder # None THEN target_dir = DocsDir(folder)
       ELSE IF rcfg.route_unknown_sender_to_fallback THEN target_dir = rcfg.fallback_dir
       ELSE target_dir = DocsDir(canon)

C7_Witness ==
  /\ MappingCase
  /\ folder_for(rmap, canonicalize(rmap, normalize_sender(rin.sender))) = None
  /\ rcfg.route_unknown_sender_to_fallback
  /\ rvia = "unknown_fallback"

\* claim's reading of a stage result being good enough
AcceptedByClaim(r) ==
  ~ConfBelow(r.confidence, ccfg.threshold_accept) /\ (ccfg.require_evidence => r.evidence > 0)

\* C3: classify_multi_stage calls the stage-1 model exactly once and the
\* stage-2 model (with the same prompt) exactly once iff stage 1 is not good
\* enough; an accepted stage 1 gives final = stage-1 result, stage_used = 1;
\* never a third call.
C3_TwoStageEscalation ==
  /\ Len(calls) <= 2
  /\ (cpc # "start" => (Len(calls) >= 1 /\ calls[1].model = Stage1Model))
  /\ (Len(calls) = 2 => (calls[2].model = Stage2Model /\ calls[2].prompt = calls[1].prompt))
  /\ ((cpc # "start" /\ stub.raw1 # RaiseCall) =>
        /\ (Len(calls) = 2 <=> ~AcceptedByClaim(stub.raw1))
        /\ (AcceptedByClaim(stub.raw1) =>
              (cpc = "done" /\ final = to_llm_result(stub.raw1, Stage1Model) /\ stage_used = 1)))

\* C4: when stage 2 runs (and returns), final is the stage-2 result iff its
\* confidence is >= stage 1's (ties such as 0.75 / 0.75 go to stage 2),
\* else stage 1's; stage_used names the selected stage.
C4_TieBreak ==
  (cpc = "done" /\ Len(calls) = 2) =>
    IF stub.raw2.confidence >= stub.raw1.confidence
    THEN final = to_llm_result(stub.raw2, Stage2Model) /\ stage_used = 2
    ELSE final = to_llm_result(stub.raw1, Stage1Model) /\ stage_used = 1

C4_Witness ==
  /\ cpc = "done" /\ Len(calls) = 2
  /\ stub.raw1.confidence = 3 /\ stub.raw2.confidence = 3
  /\ stage_used = 2

\* the example of tests/test_mapping.py holds when its table is loaded
MapExample ==
  (mpc = "done" /\ <<"S", " ", "M", "u", "e">> \in DOMAIN mmap.synonyms
                /\ msender = <<"S", " ", "M", "u", "e">>)
    => (mcanon = <<"S", " ", "M", "u">> /\ mfolder = <<"S", "W", "M">>)

\* C8 (as stated): canonicalize normalizes whitespace and returns the exact
\* synonym-table entry for the normalized string if present, otherwise the
\* normalized string; the test example maps to its folder.
C8_CanonicalizeExactEntry ==
  /\ (mpc = "done" =>
        LET n == normalize_sender(msender)
        IN mcanon = IF n \in DOMAIN mmap.synonyms THEN mmap.synonyms[n] ELSE n)
  /\ MapExample

\* C8 (amended): canonicalize returns the whitespace-normalized synonym-table
\* entry found by exact lookup of the normalized string, otherwise the
\* normalized string; the test example maps to its folder.
C8_CanonicalizeNormalizedEntry ==
  /\ (mpc = "done" =>
        LET n == normalize_sender(msender)
        IN mcanon = IF n \in DOMAIN mmap.synonyms
                    THEN normalize_sender(mmap.synonyms[n]) ELSE n)
  /\ MapExample

C8_Witness ==
  mpc = "done" /\ msender # normalize_sender(msender)
  /\ normalize_sender(msender) \in DOMAIN mmap.synonyms /\ mfolder # None

\* claim's reading of alnum_ratio < min_alnum_ratio
ClaimRatioBelow(t, r) == AlnumCount(t) * r[2] < r[1] * Max(1, Len(t))

\* C9: OCR is invoked iff OCR is enabled and (len(text) < min_text_chars or
\* alnum_ratio(text) < min_alnum_ratio), with alnum_ratio = alnum / max(1, len);
\* alnum_ratio("abc 123") > 0.5 and alnum_ratio("!!!") = 0.
C9_OcrDecision ==
  /\ (epc = "done" =>
        (ocr_invoked <=> (ecfg.use_vision /\ (Len(text_before_ocr) < ecfg.min_text_chars
                                             \/ ClaimRatioBelow(text_before_ocr, ecfg.min_alnum_ratio)))))
  /\ RatLess(<<1, 2>>, alnum_ratio(<<"a", "b", "c", " ", "1", "2", "3">>))
  /\ alnum_ratio(<<"!", "!", "!">>)[1] = 0
  /\ alnum_ratio(<<>>)[1] = 0

C9_Witness ==
  epc = "done" /\ ocr_invoked /\ Len(text_before_ocr) >= ecfg.min_text_chars
  /\ text_before_ocr # <<>>

\* C10 (as stated): a text-layer failure gives empty text, which triggers OCR
\* when OCR is enabled, and by itself never sets the error.
C10_TextlayerFailureRecovered ==
  (epc = "done" /\ textlayer_failed) =>
    /\ text_before_ocr = <<>>
    /\ (ecfg.use_vision => ocr_invoked)
    /\ (~ocr_failed => error = "none")

\* C10 (amended): a text-layer failure gives empty text, which triggers OCR
\* when OCR is enabled and min_text_chars > 0 or min_alnum_ratio > 0; by itself
\* it never sets the error (only an OCR failure does).
C10_TextlayerFailureRecoveredAmended ==
  (epc = "done" /\ textlayer_failed) =>
    /\ text_before_ocr = <<>>
    /\ ((ecfg.use_vision /\ (ecfg.min_text_chars > 0 \/ ecfg.min_alnum_ratio[1] > 0)) => ocr_invoked)
    /\ (~ocr_failed => error = "none")

C10_Witness ==
  epc = "done" /\ textlayer_failed /\ ocr_invoked /\ ~ocr_failed /\ error = "none"

C12_ClassifyErrorIsolated ==
  (rpc # "start" /\ rin.error = "llm") =>
    /\ rin.conf = 0
    /\ routed_to_fallback = 1
    /\ target_dir = rcfg.fallback_dir
    /\ (rraise = "none" => (rpc = "done" /\ rrow))

C12_Witness ==
  rpc = "done" /\ rrow /\ rin.error = "llm" /\ rcalls >= 1 /\ ~rbp

\* C13: every document-level error, collision exhaustion and a failing move
\* included, is caught at the per-document boundary and recorded in a row
\* inserted for that document: process_one always ends with a row.
C13_AllErrorsRecorded ==
  rpc # "start" => (rpc = "done" /\ rrow)

\* C14: every started run records its end (ended_at and the final counters)
\* exactly once: once no invocation is active, every run record is ended.
C14_RunEndedOnce ==
  main_pc = "idle" => \A r \in DOMAIN runs : runs[r].ended

\* C15: run records are append-only, one run record per invocation, even when
\* two invocations get the same second-resolution run id.
C15_RunsAppendOnly ==
  Cardinality(DOMAIN runs) = invocations

\* the candidates {base}{ext}, {base}{suffix(1)}{ext}, ..., {base}{suffix(max)}{ext}
Candidate(n) == IF n = 0 THEN <<>> ELSE format_suffix(arg.fmt, n)

\* C16: resolve_collision returns the first free candidate in the order
\* base, suffix(1), ..., suffix(max_suffix), raises if all are taken, never
\* returns an existing name; resolving and creating repeatedly from a
\* directory without base yields base, _1, _2, ... in order.
C16_ResolveCollision ==
  /\ fpc = "done" =>
       IF \E n \in 0..arg.max_suffix : Candidate(n) \notin arg.prev
       THEN LET k == CHOOSE n \in 0..arg.max_suffix :
                       Candidate(n) \notin arg.prev /\ \A j \in 0..(n - 1) : Candidate(j) \in arg.prev
            IN res = Candidate(k) /\ res \notin arg.prev
       ELSE res = RaiseName
  /\ (fpc # "idle" /\ arg.fmt = "_{n}" /\ arg.initial \cap {Candidate(n) : n \in 0..arg.max_suffix} = {}) =>
       \A k \in 1..Len(arg.hist) :
         arg.hist[k] = IF k - 1 <= arg.max_suffix THEN Candidate(k - 1) ELSE RaiseName

C16_Witness ==
  /\ fpc = "done" /\ arg.fmt = "_{n}" /\ arg.initial = {}
  /\ Len(arg.hist) = 3 /\ arg.hist[3] = <<"_", 2>>

\* C17: sanitize_filename returns a non-empty name of length <= max_len
\* without filesystem-illegal characters, whitespace runs, leading/trailing
\* spaces or trailing dots, for every input and both keep_umlauts settings;
\* "" yields "Dokument" and "  Rechnung: Telekom/DSL  " yields
\* "Rechnung- Telekom-DSL".
C17_SanitizeContract ==
  fpc = "done" =>
    /\ Len(res) > 0
    /\ Len(res) <= arg.max_len
    /\ \A i \in 1..Len(res) : res[i] \notin INVALID_CHARS
    /\ \A i \in 1..(Len(res) - 1) : ~(res[i] \in NameWS /\ res[i + 1] \in NameWS)
    /\ res[1] \notin NameWS
    /\ res[Len(res)] \notin NameWS \cup {"."}
    /\ (arg.name = <<>> /\ arg.max_len >= 8) => res = Dokument
    /\ (arg.name = SanitizeExampleIn /\ arg.max_len >= Len(SanitizeExampleOut)) => res = SanitizeExampleOut

\* C18: every normalized filename label is non-empty, has no digits, consists
\* only of kept letters and single spaces (no leading/trailing space), has at
\* most 3 words and at most 32 characters; a raw label with a digit becomes
\* "Dokument".
C18_LabelNormalized ==
  fpc = "done" =>
    /\ Len(res) > 0
    /\ \A i \in 1..Len(res) : res[i] \in KeptLetters \cup {" "}
    /\ \A i \in 1..Len(res) : res[i] \notin Digits
    /\ res[1] # " " /\ res[Len(res)] # " "
    /\ \A i \in 1..(Len(res) - 1) : ~(res[i] = " " /\ res[i + 1] = " ")
    /\ Len(split(res)) <= 3
    /\ Len(res) <= 32
    /\ (\E i \in 1..Len(arg.label) : arg.label[i] \in Digits) => res = Dokument

C18_Witness ==
  /\ fpc = "done"
  /\ arg.label = JoinSpace(<<RepeatA(15), RepeatA(15), RepeatA(5)>>)
  /\ Len(res) = 31

\* the text holds a JSON object somewhere
ContainsObject(s) ==
  \E i \in 1..Len(s) : \E j \in i..Len(s) : json_loads_ok(SubSeq(s, i, j))

\* C19: a response that contains a JSON object (nested ones included) is
\* recovered as an object; parsing fails only when no object is contained.
C19_JsonRecovered ==
  fpc = "done" =>
    /\ ContainsObject(arg.text) => (res # RaiseJson /\ json_loads_ok(res))
    /\ ~ContainsObject(arg.text) => res = RaiseJson

\* the source named n yields a valid date
Yields(n, o) ==
  \/ n = "today"
  \/ n = "pdf_meta" /\ o.pdf_meta = "date"
  \/ n = "file_birthtime" /\ o.file_birthtime = "date"
  \/ n = "mtime" /\ o.mtime = "date"

\* C20: choose_date_prefix returns the date of the first listed source that
\* yields one, in list order ("today" always does, unknown names are
\* skipped), and today's date with source "today" when none does.
C20_DatePriority ==
  fpc = "done" =>
    LET p == arg.prio
        o == arg.outcome
    IN IF \E i \in 1..Len(p) : Yields(LowerName(p[i]), o)
       THEN LET i == CHOOSE i \in 1..Len(p) : Yields(LowerName(p[i]), o)
                       /\ \A k \in 1..(i - 1) : ~Yields(LowerName(p[k]), o)
            IN res = [date |-> DateOf[LowerName(p[i])], source |-> LowerName(p[i])]
       ELSE res = [date |-> DateOf.today, source |-> "today"]

\* C21: after any inserts, get_latest_by_fingerprint(fp) returns the most
\* recently inserted row whose fingerprint equals the trimmed fp, nothing if
\* there is none, and nothing for a blank fp.
C21_LatestByFingerprint ==
  fpc = "looked" =>
    LET key == query_key(arg.query)
        match(i) == arg.rows[i].fp = key
    IN IF key = <<>> \/ ~\E i \in 1..Len(arg.rows) : match(i)
       THEN res = NoRow
       ELSE \E i \in 1..Len(arg.rows) :
              /\ match(i) /\ res = arg.rows[i]
              /\ \A j \in (i + 1)..Len(arg.rows) : ~match(j)

C21_Witness ==
  /\ fpc = "looked"
  /\ res # NoRow
  /\ \E i \in 1..Len(arg.rows) : arg.rows[i].fp = res.fp /\ arg.rows[i].id < res.id

\* the file processed last had been processed before with the same bytes
Reprocessed ==
  fpc = "processed" /\ \E i \in 1..Len(arg.prev) : arg.prev[i].content = arg.file.content

C23_AdditiveMigration ==
  fpc = "done" =>
    /\ SchemaCols \subseteq arg.cols
    /\ arg.prev_cols # NoTable => arg.prev_cols \subseteq arg.cols
    /\ arg.rows = arg.prev_rows
    /\ arg.starts > 1 => arg.cols = arg.prev_cols

\* C24: in dry-run mode no file is moved and no directory is created, while
\* classification is still performed and the document's row is inserted
\* when process_one completes.
C24_DryRun ==
  rdry =>
    /\ ~rdir
    /\ ~rmoved
    /\ (rpc = "done" => (rin.called /\ rrow))

C24_Witness ==
  rdry /\ rpc = "done" /\ rrow /\ rin.error = "none"

\* C25: move_file is all-or-nothing: either the file is at the destination
\* and gone from the source, or an error is raised, the source is untouched
\* and nothing is at the destination.
C25_MoveAllOrNothing ==
  fpc = "done" =>
    \A k \in 1..Len(res) :
      \/ ~res[k].raised /\ res[k].dst = "full" /\ res[k].src = "absent"
      \/ res[k].raised /\ res[k].src = "intact" /\ res[k].dst = "absent"

C28_WellFormedAnswerClassified ==
  (rpc = "done" /\ response # RaiseCall) => rin.error # "llm"

C30_CanonicalizeIdempotent ==
  mpc = "done" => canonicalize(mmap, mcanon) = mcanon

====
